---- MODULE Spec2Model ----
(***************************************************************************)
(* segbitset<N>: a bitset stored as a segment tree of OR summaries         *)
(* (segbitset.h).  Two objects of the same capacity N, "a" and "b", are    *)
(* modelled together with the temporaries returned by the value operators. *)
(* A tree is the std::bitset<1 + (N << 2)> member: a function from the     *)
(* slots 0..4N to BOOLEAN.  Positions are 0-based, ranges [l, r] 1-based.  *)
(***************************************************************************)
EXTENDS Integers, Sequences, FiniteSets, TLC

VARIABLES
    N,        \* template parameter: the number of bits
    tree,     \* tree[o]: the member `tree` of object o
    v,        \* v[o]: the std::bitset<N> the caller constructed o from, when it keeps it
    tmp,      \* the segbitset last returned by value (operator~, &, |, ^)
    out,      \* the std::bitset<N> last filled by to_bitset
    loop,     \* the caller's loop  for (p = first(); p != N; p = next(p))
    last      \* the last call: its name, arguments, result (or throw) and the trees before it

vars == <<N, tree, v, tmp, out, loop, last>>

\* ---- bounds of the model ------------------------------------------------
MaxN == 4
\* the largest N of the objects the handles are taken on
MaxNRef == 3
\* size_t is modelled as an unsigned integer of SizeBits bits
SizeBits == 9

Objs == {"a", "b"}
Other(o) == IF o = "a" THEN "b" ELSE "a"
SizeMod == 2 ^ SizeBits
Slots == 0 .. (4 * N)
Positions == 0 .. (N - 1)
Vectors == [Positions -> BOOLEAN]
ZeroTree == [x \in Slots |-> FALSE]
ZeroVector == [i \in Positions |-> FALSE]

\* ---- index arithmetic ---------------------------------------------------
__ls(x) == 2 * x
__rs(x) == 2 * x + 1

\* the nodes <<x, l, r>> of the tree that midpoint splitting of [l, r] puts below x
RECURSIVE NodesFrom(_, _, _)
NodesFrom(l, r, x) ==
    IF l = r THEN {<<x, l, r>>}
    ELSE LET m == (l + r) \div 2
         IN {<<x, l, r>>} \cup NodesFrom(l, m, __ls(x)) \cup NodesFrom(m + 1, r, __rs(x))
Nodes == NodesFrom(1, N, 1)
Internal == {n[1] : n \in {k \in Nodes : k[2] # k[3]}}
Leaves == {n[1] : n \in {k \in Nodes : k[2] = k[3]}}

__pushup(t, x) == [t EXCEPT ![x] = t[__ls(x)] \/ t[__rs(x)]]

RECURSIVE __pushup_to_root(_, _)
\* a propagation that recomputes the parent only, not the path to the root
__pushup_to_root_parent_only(t, x) ==
    IF x = 0 THEN t
    ELSE [t EXCEPT ![x] = t[__ls(x)] \/ t[__rs(x)]]

__pushup_to_root(t, x) ==
    IF x = 0 THEN t
    ELSE __pushup_to_root([t EXCEPT ![x] = t[__ls(x)] \/ t[__rs(x)]], x \div 2)

RECURSIVE __find(_, _, _, _)
\* a descent that sends the midpoint itself to the right child
__find_midpoint_right(pos, l, r, x) ==
    IF l = r THEN x
    ELSE LET m == (l + r) \div 2
         IN IF pos < m THEN __find(pos, l, m, __ls(x))
            ELSE __find(pos, m + 1, r, __rs(x))

__find(pos, l, r, x) ==
    IF l = r THEN x
    ELSE LET m == (l + r) \div 2
         IN IF pos <= m THEN __find(pos, l, m, __ls(x))
            ELSE __find(pos, m + 1, r, __rs(x))

\* ---- construction -------------------------------------------------------
RECURSIVE __build(_, _, _, _, _)
__build(t, a, l, r, x) ==
    IF l = r THEN [t EXCEPT ![x] = a[l - 1]]
    ELSE LET m == (l + r) \div 2
             t1 == __build(t, a, l, m, __ls(x))
             t2 == __build(t1, a, m + 1, r, __rs(x))
         IN __pushup(t2, x)

\* segbitset(const std::bitset<N>& a): the member starts all zero
build(a) == __build(ZeroTree, a, 1, N, 1)

\* ---- queries ------------------------------------------------------------
test(t, pos) == t[__find(pos + 1, 1, N, 1)]

RECURSIVE __count(_, _, _, _)
\* a count that takes a true summary to mean that the whole range is set
__count_whole_range(t, l, r, x) ==
    IF ~t[x] THEN 0
    ELSE r - l + 1

__count(t, l, r, x) ==
    IF ~t[x] THEN 0
    ELSE IF l = r THEN 1
    ELSE LET m == (l + r) \div 2
         IN __count(t, l, m, __ls(x)) + __count(t, m + 1, r, __rs(x))
count(t) == __count(t, 1, N, 1)

RECURSIVE __all(_, _, _, _)
\* an all that is satisfied by either child
__all_either_child(t, l, r, x) ==
    IF ~t[x] THEN FALSE
    ELSE IF l = r THEN t[x]
    ELSE LET m == (l + r) \div 2
         IN __all(t, l, m, __ls(x)) \/ __all(t, m + 1, r, __rs(x))

__all(t, l, r, x) ==
    IF ~t[x] THEN FALSE
    ELSE IF l = r THEN t[x]
    ELSE LET m == (l + r) \div 2
         IN __all(t, l, m, __ls(x)) /\ __all(t, m + 1, r, __rs(x))
all(t) == __all(t, 1, N, 1)
any(t) == t[1]
none(t) == ~t[1]

\* ---- point mutators -----------------------------------------------------
set_pos(t, pos, value) ==
    LET x == __find(pos + 1, 1, N, 1)
    IN __pushup_to_root([t EXCEPT ![x] = TRUE], x \div 2)

reset_pos(t, pos) ==
    LET x == __find(pos + 1, 1, N, 1)
    IN __pushup_to_root([t EXCEPT ![x] = FALSE], x \div 2)

flip_pos(t, pos) ==
    LET x == __find(pos + 1, 1, N, 1)
    IN __pushup_to_root([t EXCEPT ![x] = ~t[x]], x \div 2)

\* ---- whole-structure mutators -------------------------------------------
\* tree.set() of std::bitset: every slot, used by the tree or not, becomes 1
set_all(t) == [x \in Slots |-> TRUE]

RECURSIVE __reset(_, _, _, _)
\* a reset that clears the summary it enters and leaves the subtree below it
__reset_summary_only(t, l, r, x) ==
    IF ~t[x] THEN t
    ELSE [t EXCEPT ![x] = FALSE]

__reset(t, l, r, x) ==
    IF ~t[x] THEN t
    ELSE IF l = r THEN [t EXCEPT ![x] = FALSE]
    ELSE LET m == (l + r) \div 2
             t1 == __reset(t, l, m, __ls(x))
             t2 == __reset(t1, m + 1, r, __rs(x))
         IN __pushup(t2, x)
reset_all(t) == __reset(t, 1, N, 1)

RECURSIVE __flip(_, _, _, _)
\* a flip that skips a subtree whose summary is false, as reset does
__flip_pruned(t, l, r, x) ==
    IF ~t[x] THEN t
    ELSE IF l = r THEN [t EXCEPT ![x] = ~t[x]]
    ELSE LET m == (l + r) \div 2
             t1 == __flip(t, l, m, __ls(x))
             t2 == __flip(t1, m + 1, r, __rs(x))
         IN __pushup(t2, x)

__flip(t, l, r, x) ==
    IF l = r THEN [t EXCEPT ![x] = ~t[x]]
    ELSE LET m == (l + r) \div 2
             t1 == __flip(t, l, m, __ls(x))
             t2 == __flip(t1, m + 1, r, __rs(x))
         IN __pushup(t2, x)
flip_all(t) == __flip(t, 1, N, 1)

\* ---- copy ---------------------------------------------------------------
\* segbitset(const __segbitset& o) : tree(o.tree)
copy(o) == o

\* ---- bulk operators -----------------------------------------------------
\* other.tree[x] as the traversal of `t` reads it: when `other` is the object
\* itself (self), the read sees what the traversal has written so far.
other_tree(t, o, self, x) == IF self THEN t[x] ELSE o[x]

RECURSIVE __and_assign(_, _, _, _, _, _)
\* an AND that prunes on the other side's summary, as OR and XOR do
__and_assign_prune_other(t, o, self, l, r, x) ==
    IF ~other_tree(t, o, self, x) THEN t
    ELSE IF l = r THEN [t EXCEPT ![x] = t[x] /\ other_tree(t, o, self, x)]
    ELSE LET m == (l + r) \div 2
             t1 == __and_assign(t, o, self, l, m, __ls(x))
             t2 == __and_assign(t1, o, self, m + 1, r, __rs(x))
         IN __pushup(t2, x)

__and_assign(t, o, self, l, r, x) ==
    IF ~t[x] THEN t
    ELSE IF l = r THEN [t EXCEPT ![x] = t[x] /\ other_tree(t, o, self, x)]
    ELSE LET m == (l + r) \div 2
             t1 == __and_assign(t, o, self, l, m, __ls(x))
             t2 == __and_assign(t1, o, self, m + 1, r, __rs(x))
         IN __pushup(t2, x)
and_assign(t, o, self) == __and_assign(t, o, self, 1, N, 1)

RECURSIVE __or_assign(_, _, _, _, _, _)
\* an OR that prunes on this side's summary, as AND does
__or_assign_prune_this(t, o, self, l, r, x) ==
    IF ~t[x] THEN t
    ELSE IF l = r THEN [t EXCEPT ![x] = t[x] \/ other_tree(t, o, self, x)]
    ELSE LET m == (l + r) \div 2
             t1 == __or_assign(t, o, self, l, m, __ls(x))
             t2 == __or_assign(t1, o, self, m + 1, r, __rs(x))
         IN __pushup(t2, x)

__or_assign(t, o, self, l, r, x) ==
    IF ~other_tree(t, o, self, x) THEN t
    ELSE IF l = r THEN [t EXCEPT ![x] = t[x] \/ other_tree(t, o, self, x)]
    ELSE LET m == (l + r) \div 2
             t1 == __or_assign(t, o, self, l, m, __ls(x))
             t2 == __or_assign(t1, o, self, m + 1, r, __rs(x))
         IN __pushup(t2, x)
or_assign(t, o, self) == __or_assign(t, o, self, 1, N, 1)

RECURSIVE __xor_assign(_, _, _, _, _, _)
\* an XOR that does not recompute the summary on the way back up
__xor_assign_no_pushup(t, o, self, l, r, x) ==
    IF ~other_tree(t, o, self, x) THEN t
    ELSE IF l = r THEN [t EXCEPT ![x] = (t[x] # other_tree(t, o, self, x))]
    ELSE LET m == (l + r) \div 2
             t1 == __xor_assign(t, o, self, l, m, __ls(x))
         IN __xor_assign(t1, o, self, m + 1, r, __rs(x))

__xor_assign(t, o, self, l, r, x) ==
    IF ~other_tree(t, o, self, x) THEN t
    ELSE IF l = r THEN [t EXCEPT ![x] = (t[x] # other_tree(t, o, self, x))]
    ELSE LET m == (l + r) \div 2
             t1 == __xor_assign(t, o, self, l, m, __ls(x))
             t2 == __xor_assign(t1, o, self, m + 1, r, __rs(x))
         IN __pushup(t2, x)
xor_assign(t, o, self) == __xor_assign(t, o, self, 1, N, 1)

\* operator~ : a flipped copy
complement(t) == flip_all(copy(t))

\* non-member operator&, operator|, operator^ : auto s = lhs; s op= rhs; return s
op_and(lhs, rhs) == and_assign(copy(lhs), rhs, FALSE)
op_or(lhs, rhs) == or_assign(copy(lhs), rhs, FALSE)
op_xor(lhs, rhs) == xor_assign(copy(lhs), rhs, FALSE)

\* ---- equality -----------------------------------------------------------
\* The result of __equal is "true" or "false"; it is "ub" when the traversal
\* reads a slot outside the bitset (std::bitset::operator[] does not check).
RECURSIVE __equal(_, _, _, _, _)
__equal(t, rhs, l, r, x) ==
    IF x \notin Slots THEN "ub"
    ELSE IF t[x] # rhs[x] THEN "false"
    ELSE IF ~t[x] /\ ~rhs[x] THEN "true"
    ELSE IF l = r THEN "true"
    ELSE LET m == (l + r) \div 2
             e1 == __equal(t, rhs, l, m, __ls(x))
         IN IF e1 # "true" THEN e1
            ELSE __equal(t, rhs, r, m + 1, __rs(x))
equal(t, rhs) == __equal(t, rhs, 1, N, 1)

\* ---- export -------------------------------------------------------------
RECURSIVE __to_bitset(_, _, _, _, _)
\* an export that descends into the left child only
__to_bitset_left_only(t, a, l, r, x) ==
    IF l = r THEN [a EXCEPT ![l - 1] = t[x]]
    ELSE LET m == (l + r) \div 2
         IN __to_bitset(t, a, l, m, __ls(x))

__to_bitset(t, a, l, r, x) ==
    IF l = r THEN [a EXCEPT ![l - 1] = t[x]]
    ELSE LET m == (l + r) \div 2
             a1 == __to_bitset(t, a, l, m, __ls(x))
         IN __to_bitset(t, a1, m + 1, r, __rs(x))
\* to_bitset() const starts from a value-initialised std::bitset<N>
to_bitset(t) == __to_bitset(t, ZeroVector, 1, N, 1)

\* ---- enumeration --------------------------------------------------------
\* __next returns the value its reference parameter `ans` holds on return
RECURSIVE __next(_, _, _, _, _, _)
\* a search that also skips the interval ending at pos itself
__next_skip_pos(t, pos, l, r, x, ans) ==
    IF ~t[x] THEN ans
    ELSE IF r <= pos THEN ans
    ELSE IF l = r THEN l
    ELSE LET m == (l + r) \div 2
             lx == __ls(x)
             rx == __rs(x)
             a1 == IF ans = 0 /\ t[lx] THEN __next(t, pos, l, m, lx, ans) ELSE ans
         IN IF a1 = 0 /\ t[rx] THEN __next(t, pos, m + 1, r, rx, a1) ELSE a1

__next(t, pos, l, r, x, ans) ==
    IF ~t[x] THEN ans
    ELSE IF r < pos THEN ans
    ELSE IF l = r THEN l
    ELSE LET m == (l + r) \div 2
             lx == __ls(x)
             rx == __rs(x)
             a1 == IF ans = 0 /\ t[lx] THEN __next(t, pos, l, m, lx, ans) ELSE ans
         IN IF a1 = 0 /\ t[rx] THEN __next(t, pos, m + 1, r, rx, a1) ELSE a1

\* a first that returns the 1-based index __next found
first_one_based(t) ==
    LET ans == __next(t, 1, 1, N, 1, 0)
    IN IF ans # 0 THEN ans ELSE N

first(t) ==
    LET ans == __next(t, 1, 1, N, 1, 0)
    IN IF ans # 0 THEN ans - 1 ELSE N

\* a next without the ++pos that excludes the previous result
next_without_increment(t, pos) ==
    LET ans == __next(t, (pos + 1) % SizeMod, 1, N, 1, 0)
    IN IF ans # 0 THEN ans - 1 ELSE N

\* ++pos and pos + 1 are size_t arithmetic
next(t, pos) ==
    LET pos1 == (pos + 1) % SizeMod
        ans == __next(t, (pos1 + 1) % SizeMod, 1, N, 1, 0)
    IN IF ans # 0 THEN ans - 1 ELSE N

\* the sequence of positions the callback is invoked with
RECURSIVE __foreach1(_, _, _, _)
__foreach1(t, l, r, x) ==
    IF ~t[x] THEN <<>>
    ELSE IF l = r THEN <<l - 1>>
    ELSE LET m == (l + r) \div 2
             lx == __ls(x)
             rx == __rs(x)
         IN (IF t[lx] THEN __foreach1(t, l, m, lx) ELSE <<>>)
            \o (IF t[rx] THEN __foreach1(t, m + 1, r, rx) ELSE <<>>)
foreach1(t) == __foreach1(t, 1, N, 1)

\* ---- the state machine --------------------------------------------------
NoLoop == [pc |-> "idle", obj |-> "a", p |-> 0, visited |-> <<>>]

\* the record of a call on object o
Call(op, o, self, pos, value, retb, retn, ub, seq) ==
    [op |-> op, obj |-> o, self |-> self, pos |-> pos, value |-> value,
     retb |-> retb, retn |-> retn, ub |-> ub, seq |-> seq, pre |-> tree,
     thrown |-> FALSE, pos2 |-> 0]
Mutation(op, o, self, pos, value) == Call(op, o, self, pos, value, FALSE, 0, FALSE, <<>>)

NoCall ==
    [op |-> "build", obj |-> "a", self |-> FALSE, pos |-> 0, value |-> FALSE,
     retb |-> FALSE, retn |-> 0, ub |-> FALSE, seq |-> <<>>,
     pre |-> [o \in Objs |-> ZeroTree], thrown |-> FALSE, pos2 |-> 0]

\* Both objects are constructed from a std::bitset<N>; the default constructor
\* gives the tree that the all-false vector gives.  The caller does not keep
\* the vectors.
Init ==
    /\ N \in 1 .. MaxN
    /\ v = [o \in Objs |-> ZeroVector]
    /\ \E w \in [Objs -> Vectors] : tree = [o \in Objs |-> build(w[o])]
    /\ tmp = ZeroTree
    /\ out = ZeroVector
    /\ loop = NoLoop
    /\ last = NoCall

\* Both objects are constructed from the vectors v, which the caller keeps
InitBuilt ==
    /\ N \in 1 .. MaxN
    /\ v \in [Objs -> Vectors]
    /\ tree = [o \in Objs |-> build(v[o])]
    /\ tmp = ZeroTree
    /\ out = ZeroVector
    /\ loop = NoLoop
    /\ last = NoCall

\* set(pos, value), pos < N
SetPos(o, pos, value) ==
    /\ tree' = [tree EXCEPT ![o] = set_pos(tree[o], pos, value)]
    /\ last' = Mutation("set_pos", o, FALSE, pos, value)
    /\ UNCHANGED <<N, v, tmp, out, loop>>

\* reset(pos), pos < N
ResetPos(o, pos) ==
    /\ tree' = [tree EXCEPT ![o] = reset_pos(tree[o], pos)]
    /\ last' = Mutation("reset_pos", o, FALSE, pos, FALSE)
    /\ UNCHANGED <<N, v, tmp, out, loop>>

\* flip(pos), pos < N
FlipPos(o, pos) ==
    /\ tree' = [tree EXCEPT ![o] = flip_pos(tree[o], pos)]
    /\ last' = Mutation("flip_pos", o, FALSE, pos, FALSE)
    /\ UNCHANGED <<N, v, tmp, out, loop>>

SetAll(o) ==
    /\ tree' = [tree EXCEPT ![o] = set_all(tree[o])]
    /\ last' = Mutation("set_all", o, FALSE, 0, FALSE)
    /\ UNCHANGED <<N, v, tmp, out, loop>>

ResetAll(o) ==
    /\ tree' = [tree EXCEPT ![o] = reset_all(tree[o])]
    /\ last' = Mutation("reset_all", o, FALSE, 0, FALSE)
    /\ UNCHANGED <<N, v, tmp, out, loop>>

FlipAll(o) ==
    /\ tree' = [tree EXCEPT ![o] = flip_all(tree[o])]
    /\ last' = Mutation("flip_all", o, FALSE, 0, FALSE)
    /\ UNCHANGED <<N, v, tmp, out, loop>>

\* o &= other, where other is the second object or (self) o itself
AndAssign(o, self) ==
    /\ tree' = [tree EXCEPT ![o] = and_assign(tree[o], tree[Other(o)], self)]
    /\ last' = Mutation("and_assign", o, self, 0, FALSE)
    /\ UNCHANGED <<N, v, tmp, out, loop>>

OrAssign(o, self) ==
    /\ tree' = [tree EXCEPT ![o] = or_assign(tree[o], tree[Other(o)], self)]
    /\ last' = Mutation("or_assign", o, self, 0, FALSE)
    /\ UNCHANGED <<N, v, tmp, out, loop>>

XorAssign(o, self) ==
    /\ tree' = [tree EXCEPT ![o] = xor_assign(tree[o], tree[Other(o)], self)]
    /\ last' = Mutation("xor_assign", o, self, 0, FALSE)
    /\ UNCHANGED <<N, v, tmp, out, loop>>

\* object o is replaced by a copy-constructed copy of the other object
Copy(o) ==
    /\ tree' = [tree EXCEPT ![o] = copy(tree[Other(o)])]
    /\ last' = Mutation("copy", o, FALSE, 0, FALSE)
    /\ UNCHANGED <<N, v, tmp, out, loop>>

CallFirst(o) ==
    /\ last' = Call("first", o, FALSE, 0, FALSE, FALSE, first(tree[o]), FALSE, <<>>)
    /\ UNCHANGED <<N, tree, v, tmp, out, loop>>

CallNext(o, pos) ==
    /\ last' = Call("next", o, FALSE, pos, FALSE, FALSE, next(tree[o], pos), FALSE, <<>>)
    /\ UNCHANGED <<N, tree, v, tmp, out, loop>>

\* lhs == rhs; a read outside the bitset makes the result anything
EqualResult(lhs, rhs, op, o) ==
    LET e == equal(lhs, rhs)
    IN \E b \in (IF e = "ub" THEN BOOLEAN ELSE {e = "true"}) :
          last' = Call(op, o, FALSE, 0, FALSE, b, 0, e = "ub", <<>>)

\* o == other
CallEqual(o) ==
    /\ EqualResult(tree[o], tree[Other(o)], "equal", o)
    /\ UNCHANGED <<N, tree, v, tmp, out, loop>>

\* ~(~o) == o; the two temporaries die with the expression
CallDoubleComplement(o) ==
    /\ EqualResult(complement(complement(tree[o])), tree[o], "double_complement", o)
    /\ UNCHANGED <<N, tree, v, tmp, out, loop>>

Mutate ==
    \E o \in Objs :
        \/ \E pos \in Positions, value \in BOOLEAN : SetPos(o, pos, value)
        \/ \E pos \in Positions : ResetPos(o, pos)
        \/ \E pos \in Positions : FlipPos(o, pos)
        \/ SetAll(o)
        \/ ResetAll(o)
        \/ FlipAll(o)
        \/ \E self \in BOOLEAN : AndAssign(o, self)
        \/ \E self \in BOOLEAN : OrAssign(o, self)
        \/ \E self \in BOOLEAN : XorAssign(o, self)
        \/ Copy(o)

Query ==
    \E o \in Objs :
        \/ CallFirst(o)
        \/ \E pos \in Positions : CallNext(o, pos)
        \/ CallEqual(o)
        \/ CallDoubleComplement(o)

Next == Mutate \/ Query

Spec == Init /\ [][Next]_vars

\* ---- programs on freshly constructed objects ----------------------------
\* the objects are as __build left them
Fresh == last.op = "build"

\* out = o.to_bitset()
ToBitset(o) ==
    /\ Fresh
    /\ out' = to_bitset(tree[o])
    /\ last' = Call("to_bitset", o, FALSE, 0, FALSE, FALSE, 0, FALSE, <<>>)
    /\ UNCHANGED <<N, tree, v, tmp, loop>>

\* o.foreach1(cb), cb recording the positions it is called with
CallForeach1(o) ==
    /\ Fresh
    /\ last' = Call("foreach1", o, FALSE, 0, FALSE, FALSE, 0, FALSE, foreach1(tree[o]))
    /\ UNCHANGED <<N, tree, v, tmp, out, loop>>

\* tmp = o & other, o | other, o ^ other
OpAnd(o) ==
    /\ Fresh
    /\ tmp' = op_and(tree[o], tree[Other(o)])
    /\ last' = Call("op_and", o, FALSE, 0, FALSE, FALSE, 0, FALSE, <<>>)
    /\ UNCHANGED <<N, tree, v, out, loop>>

OpOr(o) ==
    /\ Fresh
    /\ tmp' = op_or(tree[o], tree[Other(o)])
    /\ last' = Call("op_or", o, FALSE, 0, FALSE, FALSE, 0, FALSE, <<>>)
    /\ UNCHANGED <<N, tree, v, out, loop>>

\* tmp = o ^ other computed in place in o
OpXor_in_place(o) ==
    /\ Fresh
    /\ tmp' = op_xor(tree[o], tree[Other(o)])
    /\ tree' = [tree EXCEPT ![o] = op_xor(tree[o], tree[Other(o)])]
    /\ last' = Call("op_xor", o, FALSE, 0, FALSE, FALSE, 0, FALSE, <<>>)
    /\ UNCHANGED <<N, v, out, loop>>

OpXor(o) ==
    /\ Fresh
    /\ tmp' = op_xor(tree[o], tree[Other(o)])
    /\ last' = Call("op_xor", o, FALSE, 0, FALSE, FALSE, 0, FALSE, <<>>)
    /\ UNCHANGED <<N, tree, v, out, loop>>

\* for (p = o.first(); ...
LoopFirst(o) ==
    /\ Fresh
    /\ loop.pc = "idle"
    /\ loop' = [pc |-> "test", obj |-> o, p |-> first(tree[o]), visited |-> <<>>]
    /\ last' = Call("loop", o, FALSE, 0, FALSE, FALSE, 0, FALSE, <<>>)
    /\ UNCHANGED <<N, tree, v, tmp, out>>

\* ... p != N; p = o.next(p)) visit(p);   a loop that went wrong is cut off
\* after N + 1 visits
LoopBody ==
    /\ loop.pc = "test"
    /\ loop.p # N
    /\ Len(loop.visited) <= N
    /\ loop' = [loop EXCEPT !.visited = Append(loop.visited, loop.p),
                            !.p = next(tree[loop.obj], loop.p)]
    /\ UNCHANGED <<N, tree, v, tmp, out, last>>

LoopExit ==
    /\ loop.pc = "test"
    /\ loop.p = N
    /\ loop' = [loop EXCEPT !.pc = "done"]
    /\ UNCHANGED <<N, tree, v, tmp, out, last>>

NextBuilt ==
    \/ \E o \in Objs :
          \/ ToBitset(o)
          \/ CallForeach1(o)
          \/ LoopFirst(o)
          \/ Fresh /\ AndAssign(o, FALSE)
          \/ Fresh /\ OrAssign(o, FALSE)
          \/ Fresh /\ XorAssign(o, FALSE)
          \/ OpAnd(o)
          \/ OpOr(o)
          \/ OpXor(o)
    \/ LoopBody
    \/ LoopExit

SpecBuilt == InitBuilt /\ [][NextBuilt]_vars

\* ---- what the claims speak of -------------------------------------------
Min(S) == CHOOSE m \in S : \A k \in S : m <= k

\* every internal node is the OR of its two children
SummaryInv(t) == \A x \in Internal : t[x] = (t[__ls(x)] \/ t[__rs(x)])

\* the positions of the true entries of a vector, in ascending order
RECURSIVE Ascending(_)
Ascending(S) ==
    IF S = {} THEN <<>>
    ELSE <<Min(S)>> \o Ascending(S \ {Min(S)})
TrueAt(vec) == {i \in Positions : vec[i]}

\* the lowest position >= k that tests true, or N
LowestFrom(t, k) ==
    LET S == {q \in Positions : q >= k /\ test(t, q)}
    IN IF S = {} THEN N ELSE Min(S)

SameBits(t1, t2) == \A p \in Positions : test(t1, p) = test(t2, p)

MutatorOps == {"set_pos", "reset_pos", "flip_pos", "set_all", "reset_all", "flip_all",
               "and_assign", "or_assign", "xor_assign", "copy"}

\* C1: after any sequence of set/reset/flip (point and whole), &=, |=, ^= and
\* copy on objects built from vectors, every internal node of both trees
\* equals the OR of its two children.
C1_SummaryInvariant == \A o \in Objs : SummaryInv(tree[o])

\* a mutator has changed a tree with internal nodes of both values
C1_Witness ==
    /\ last.op \in MutatorOps
    /\ N >= 3
    /\ tree[last.obj] # last.pre[last.obj]
    /\ \E x, y \in Internal : tree[last.obj][x] /\ ~tree[last.obj][y]

\* C2: to_bitset() of the object built from v returns v.
C2_RoundTrip == last.op = "to_bitset" => out = v[last.obj]

\* a vector with true and false entries has been exported
C2_Witness ==
    /\ last.op = "to_bitset"
    /\ N >= 3
    /\ \E i, j \in Positions : i < j /\ out[i] /\ ~out[j]
    /\ \E i, j \in Positions : i < j /\ ~out[i] /\ out[j]

\* C3: on the object built from v, the first()/next() loop has visited, in
\* ascending order, exactly the true positions of v below p, p is N or a true
\* position of v (so the loop ends, having visited every true position once),
\* and foreach1 calls back with the same ascending sequence.
C3_Enumeration ==
    /\ loop.pc = "test" =>
          /\ loop.visited = Ascending({i \in TrueAt(v[loop.obj]) : i < loop.p})
          /\ loop.p = N \/ loop.p \in TrueAt(v[loop.obj])
    /\ loop.pc = "done" => loop.visited = Ascending(TrueAt(v[loop.obj]))
    /\ last.op = "foreach1" => last.seq = Ascending(TrueAt(v[last.obj]))

\* the loop has ended after visiting several positions with gaps between them
C3_Witness ==
    /\ loop.pc = "done"
    /\ Len(loop.visited) >= 2
    /\ loop.visited[1] > 0
    /\ loop.visited[2] > loop.visited[1] + 1

\* C4: first() is the lowest true position or N; next(p), 0 <= p < N, is the
\* lowest true position above p or N, whether or not p is a true position.
C4_FirstNext ==
    /\ last.op = "first" => last.retn = LowestFrom(tree[last.obj], 0)
    /\ last.op = "next" => last.retn = LowestFrom(tree[last.obj], last.pos + 1)

\* next(p) was asked from a false position and skipped a false one
C4_Witness ==
    /\ last.op = "next"
    /\ ~test(tree[last.obj], last.pos)
    /\ last.retn > last.pos + 1
    /\ last.retn < N

\* C5: with A and B built from a and b, after A &= B, and in the value
\* A & B, the bit at every position i is a[i] AND b[i].
C5_And ==
    /\ last.op = "and_assign" =>
          to_bitset(tree[last.obj])
             = [i \in Positions |-> v[last.obj][i] /\ v[Other(last.obj)][i]]
    /\ last.op = "op_and" =>
          to_bitset(tmp) = [i \in Positions |-> v[last.obj][i] /\ v[Other(last.obj)][i]]

\* A &= B has cleared bits of A and kept others
C5_Witness ==
    /\ last.op = "and_assign"
    /\ \E i, j \in Positions :
          /\ v[last.obj][i] /\ ~test(tree[last.obj], i)
          /\ v[last.obj][j] /\ test(tree[last.obj], j)
    /\ \E x \in Internal : ~last.pre[last.obj][x]

\* C6: with A and B built from a and b, after A |= B (and in A | B) the bit
\* at every position i is a[i] OR b[i]; after A ^= B (and in A ^ B) it is
\* a[i] # b[i].
C6_OrXor ==
    /\ last.op = "or_assign" =>
          to_bitset(tree[last.obj])
             = [i \in Positions |-> v[last.obj][i] \/ v[Other(last.obj)][i]]
    /\ last.op = "op_or" =>
          to_bitset(tmp) = [i \in Positions |-> v[last.obj][i] \/ v[Other(last.obj)][i]]
    /\ last.op = "xor_assign" =>
          to_bitset(tree[last.obj])
             = [i \in Positions |-> v[last.obj][i] # v[Other(last.obj)][i]]
    /\ last.op = "op_xor" =>
          to_bitset(tmp) = [i \in Positions |-> v[last.obj][i] # v[Other(last.obj)][i]]

\* A ^= B has set a bit, cleared a bit and skipped a subtree that is all
\* false in B
C6_Witness ==
    /\ last.op = "xor_assign"
    /\ \E i, j \in Positions :
          /\ ~v[last.obj][i] /\ test(tree[last.obj], i)
          /\ v[last.obj][j] /\ ~test(tree[last.obj], j)
    /\ \E x \in Internal \ {1} : ~tree[Other(last.obj)][x] /\ tree[last.obj][x]

\* C7: A == B returns true exactly when A and B test equal at every position.
C7_Equality == last.op = "equal" => (last.retb = SameBits(tree["a"], tree["b"]))

\* C8: ~(~A) == A evaluates to true and leaves A unchanged.
C8_DoubleComplement == last.op = "double_complement" => (last.retb /\ tree = last.pre)

\* C9: A &= A and A |= A leave every slot of A as it was; A ^= A leaves every
\* bit false, none() true and the summary invariant intact.
C9_SelfOps ==
    last.self =>
        /\ last.op = "and_assign" => tree[last.obj] = last.pre[last.obj]
        /\ last.op = "or_assign" => tree[last.obj] = last.pre[last.obj]
        /\ last.op = "xor_assign" =>
              /\ \A p \in Positions : ~test(tree[last.obj], p)
              /\ none(tree[last.obj])
              /\ SummaryInv(tree[last.obj])

\* A ^= A has run on an object with bits set on both sides of the root
C9_Witness ==
    /\ last.op = "xor_assign"
    /\ last.self
    /\ N >= 3
    /\ last.pre[last.obj][2]
    /\ last.pre[last.obj][3]

\* C10: after set(pos, value), test(pos) is value.
C10_SetValue == last.op = "set_pos" => (test(tree[last.obj], last.pos) = last.value)

\* ---- range-checked calls and copies -------------------------------------
\* the arguments tried: every position, the two values past the end and the
\* largest size_t
PosArgs == (0 .. (N + 1)) \cup {SizeMod - 1}

\* a range check that lets pos == N through
out_of_range_off_by_one(pos) == pos > N

\* if (pos >= N) throw std::out_of_range(...)
out_of_range(pos) == pos >= N

\* the call throws std::out_of_range before it touches anything
Throw(op, o, pos) ==
    /\ last' = [Call(op, o, FALSE, pos, FALSE, FALSE, 0, FALSE, <<>>) EXCEPT !.thrown = TRUE]
    /\ UNCHANGED <<N, tree, v, tmp, out, loop>>

TryTest(o, pos) ==
    IF out_of_range(pos) THEN Throw("test", o, pos)
    ELSE /\ last' = Call("test", o, FALSE, pos, FALSE, test(tree[o], pos), 0, FALSE, <<>>)
         /\ UNCHANGED <<N, tree, v, tmp, out, loop>>

TrySetPos(o, pos, value) ==
    IF out_of_range(pos) THEN Throw("set_pos", o, pos) ELSE SetPos(o, pos, value)

TryResetPos(o, pos) ==
    IF out_of_range(pos) THEN Throw("reset_pos", o, pos) ELSE ResetPos(o, pos)

TryFlipPos(o, pos) ==
    IF out_of_range(pos) THEN Throw("flip_pos", o, pos) ELSE FlipPos(o, pos)

\* operator[](pos): the handle returned caches the leaf slot (retn)
TryIndex(o, pos) ==
    IF out_of_range(pos) THEN Throw("index", o, pos)
    ELSE /\ last' = Call("index", o, FALSE, pos, FALSE, FALSE, __find(pos + 1, 1, N, 1),
                         FALSE, <<>>)
         /\ UNCHANGED <<N, tree, v, tmp, out, loop>>

\* operator=(const __segbitset& o): if (&o != this) tree = o.tree;
copy_assign(t, o, self) == IF self THEN t ELSE o

\* o = other (or o = o).  operator= has no return statement: control flows off
\* the end of a function returning a reference, which is undefined.  A build
\* may perform the assignment, or drop it as code on a path that cannot be
\* taken.
CopyAssign(o, self) ==
    /\ \E t \in {copy_assign(tree[o], tree[Other(o)], self), tree[o]} :
          tree' = [tree EXCEPT ![o] = t]
    /\ last' = Call("copy_assign", o, self, 0, FALSE, FALSE, 0, TRUE, <<>>)
    /\ UNCHANGED <<N, v, tmp, out, loop>>

NextPoint ==
    \E o \in Objs :
        \/ \E pos \in PosArgs : TryTest(o, pos)
        \/ \E pos \in PosArgs, value \in BOOLEAN : TrySetPos(o, pos, value)
        \/ \E pos \in PosArgs : TryResetPos(o, pos)
        \/ \E pos \in PosArgs : TryFlipPos(o, pos)
        \/ \E pos \in PosArgs : TryIndex(o, pos)
        \/ Copy(o)
        \/ \E self \in BOOLEAN : CopyAssign(o, self)

SpecPoint == Init /\ [][NextPoint]_vars

RangeOps == {"test", "set_pos", "reset_pos", "flip_pos", "index"}

\* C11: test, set, reset, flip and operator[] throw exactly when pos >= N, and
\* a call that throws leaves every slot of both trees as it was.
C11_OutOfRange ==
    last.op \in RangeOps =>
        /\ last.thrown <=> last.pos >= N
        /\ last.thrown => tree = last.pre

\* a mutator was called with pos == N on a tree with bits set, and threw
C11_Witness ==
    /\ last.op \in {"set_pos", "reset_pos", "flip_pos"}
    /\ last.pos = N
    /\ last.thrown
    /\ N >= 2
    /\ any(tree[last.obj])

\* the number of positions that test true
TrueCount(t) == Cardinality({p \in Positions : test(t, p)})

\* C12: in every state reached by construction and the mutators, count() is
\* the number of positions that test true.
C12_Count == \A o \in Objs : count(tree[o]) = TrueCount(tree[o])

\* a mutator has left several bits set and a subtree all false
C12_Witness ==
    /\ last.op \in MutatorOps
    /\ N >= 3
    /\ count(tree[last.obj]) >= 2
    /\ \E x \in Internal : ~tree[last.obj][x]

\* C13: any() == (count() > 0), none() == !any() and all() == (count() == N)
\* in every state reached by construction and the mutators.
C13_Cardinality ==
    \A o \in Objs :
        /\ any(tree[o]) = (count(tree[o]) > 0)
        /\ none(tree[o]) = ~any(tree[o])
        /\ all(tree[o]) = (count(tree[o]) = N)

\* a mutator has left a tree that is neither empty nor full
C13_Witness ==
    /\ last.op \in MutatorOps
    /\ N >= 3
    /\ any(tree[last.obj])
    /\ ~all(tree[last.obj])
    /\ all(tree[Other(last.obj)])

\* C17: after set() every position tests true, all() holds and count() == N;
\* after reset() every position tests false, none() holds and count() == 0.
C17_SetResetAll ==
    /\ last.op = "set_all" =>
          /\ \A p \in Positions : test(tree[last.obj], p)
          /\ all(tree[last.obj])
          /\ count(tree[last.obj]) = N
    /\ last.op = "reset_all" =>
          /\ \A p \in Positions : ~test(tree[last.obj], p)
          /\ none(tree[last.obj])
          /\ count(tree[last.obj]) = 0

\* reset() has cleared a tree that had bits set and a subtree it could skip
C17_Witness ==
    /\ last.op = "reset_all"
    /\ N >= 3
    /\ count(last.pre[last.obj]) >= 2
    /\ \E x \in Internal : ~last.pre[last.obj][x]

\* C18: after flip() every position tests the negation of what it tested
\* before, count() is N minus the count before, and the summary invariant holds.
C18_FlipAll ==
    last.op = "flip_all" =>
        /\ \A p \in Positions : test(tree[last.obj], p) = ~test(last.pre[last.obj], p)
        /\ count(tree[last.obj]) = N - count(last.pre[last.obj])
        /\ SummaryInv(tree[last.obj])

\* flip() has run on a tree with bits set and a subtree whose summary was false
C18_Witness ==
    /\ last.op = "flip_all"
    /\ N >= 3
    /\ any(last.pre[last.obj])
    /\ \E x \in Internal : ~last.pre[last.obj][x]

\* ---- class reference: a handle (s, x) on the leaf slot x of object s ------
\* operator bool
ref_bool(t, x) == t[x]

\* operator=(bool value)
ref_assign_bool(t, x, value) == __pushup_to_root([t EXCEPT ![x] = value], x \div 2)

\* operator=(const reference& reference): s.tree[x] = reference.s.tree[x], where
\* x is the member of the handle assigned to; rt is reference.s.tree and rx is
\* reference.x
ref_assign_ref(t, x, rt, rx) == __pushup_to_root([t EXCEPT ![x] = rt[x]], x \div 2)

\* an operator~ that, like that of std::bitset::reference, writes nothing
ref_not_no_write(t, x) == t

\* operator~ : auto b = s.tree[x] = !s.tree[x]; s.__pushup_to_root(x >> 1)
ref_not(t, x) == __pushup_to_root([t EXCEPT ![x] = ~t[x]], x \div 2)

\* ... return b;  b is the value assigned
ref_not_result(t, x) == ~t[x]

\* flip(): s.tree[x] = !s.tree[x]; return *this;
ref_flip(t, x) == [t EXCEPT ![x] = ~t[x]]

\* o[pos] = value
RefAssignBool(o, pos, value) ==
    /\ tree' = [tree EXCEPT ![o] = ref_assign_bool(tree[o], __find(pos + 1, 1, N, 1), value)]
    /\ last' = Mutation("ref_assign_bool", o, FALSE, pos, value)
    /\ UNCHANGED <<N, v, tmp, out, loop>>

\* o[pos] = src[pos2]
RefAssignRef(o, pos, src, pos2) ==
    /\ tree' = [tree EXCEPT ![o] = ref_assign_ref(tree[o], __find(pos + 1, 1, N, 1),
                                                  tree[src], __find(pos2 + 1, 1, N, 1))]
    /\ last' = [Mutation("ref_assign_ref", o, src = o, pos, FALSE) EXCEPT !.pos2 = pos2]
    /\ UNCHANGED <<N, v, tmp, out, loop>>

\* ~o[pos]
RefNot(o, pos) ==
    /\ tree' = [tree EXCEPT ![o] = ref_not(tree[o], __find(pos + 1, 1, N, 1))]
    /\ last' = Call("ref_not", o, FALSE, pos, FALSE,
                    ref_not_result(tree[o], __find(pos + 1, 1, N, 1)), 0, FALSE, <<>>)
    /\ UNCHANGED <<N, v, tmp, out, loop>>

\* o[pos].flip()
RefFlip(o, pos) ==
    /\ tree' = [tree EXCEPT ![o] = ref_flip(tree[o], __find(pos + 1, 1, N, 1))]
    /\ last' = Mutation("ref_flip", o, FALSE, pos, FALSE)
    /\ UNCHANGED <<N, v, tmp, out, loop>>

\* Both objects are constructed from vectors of a length up to MaxNRef
InitRef ==
    /\ N \in 1 .. MaxNRef
    /\ v = [o \in Objs |-> ZeroVector]
    /\ \E w \in [Objs -> Vectors] : tree = [o \in Objs |-> build(w[o])]
    /\ tmp = ZeroTree
    /\ out = ZeroVector
    /\ loop = NoLoop
    /\ last = NoCall

\* the handles written through are taken on object a; the handle read by an
\* assignment is taken on a or on b
NextRef ==
    \/ \E pos \in Positions, value \in BOOLEAN : RefAssignBool("a", pos, value)
    \/ \E src \in Objs : \E pos \in Positions, pos2 \in Positions :
          RefAssignRef("a", pos, src, pos2)
    \/ \E pos \in Positions : RefNot("a", pos)
    \/ \E pos \in Positions : RefFlip("a", pos)

SpecRef == InitRef /\ [][NextRef]_vars

RefOps == {"ref_assign_bool", "ref_assign_ref", "ref_not", "ref_flip"}

\* C14: after a mutating operation on a handle the summary invariant holds,
\* and any(), count() and first() agree with the bits test() reports.
C14_HandleInvariant ==
    last.op \in RefOps =>
        /\ SummaryInv(tree[last.obj])
        /\ any(tree[last.obj]) = (TrueCount(tree[last.obj]) > 0)
        /\ count(tree[last.obj]) = TrueCount(tree[last.obj])
        /\ first(tree[last.obj]) = LowestFrom(tree[last.obj], 0)

\* C15: after b[i] = c[j], b tests at i what c tested at j before, and no
\* other position of b has changed.
C15_HandleAssign ==
    last.op = "ref_assign_ref" =>
        LET src == IF last.self THEN last.obj ELSE Other(last.obj)
        IN /\ test(tree[last.obj], last.pos) = test(last.pre[src], last.pos2)
           /\ \A q \in Positions \ {last.pos} :
                 test(tree[last.obj], q) = test(last.pre[last.obj], q)

\* C16 as claimed: operator~ on a handle flips the bit and returns the value
\* the bit had before the flip.
C16_NotReturnsPrevious ==
    last.op = "ref_not" =>
        /\ test(tree[last.obj], last.pos) = ~test(last.pre[last.obj], last.pos)
        /\ last.retb = test(last.pre[last.obj], last.pos)

\* C16 amended: operator~ on a handle flips the bit and returns the value the
\* bit has after the flip, the negation of the value it had before.
C16_NotReturnsFlipped ==
    last.op = "ref_not" =>
        /\ test(tree[last.obj], last.pos) = ~test(last.pre[last.obj], last.pos)
        /\ last.retb = test(tree[last.obj], last.pos)
        /\ last.retb = ~test(last.pre[last.obj], last.pos)

\* operator~ has cleared a bit that was set, with other bits set around it
C16_Witness ==
    /\ last.op = "ref_not"
    /\ N >= 2
    /\ test(last.pre[last.obj], last.pos)
    /\ ~last.retb
    /\ \E q \in Positions \ {last.pos} : test(tree[last.obj], q)

\* ---- the scenario with N = 64 --------------------------------------------
CallCount(o) ==
    /\ last' = Call("count", o, FALSE, 0, FALSE, FALSE, count(tree[o]), FALSE, <<>>)
    /\ UNCHANGED <<N, tree, v, tmp, out, loop>>

\* a is built from the vector true at 1, 20, 31, 41 and b from the vector true at 20
Init64 ==
    /\ N = 64
    /\ v = [o \in Objs |-> [i \in Positions |->
               IF o = "a" THEN i \in {1, 20, 31, 41} ELSE i = 20]]
    /\ tree = [o \in Objs |-> build(v[o])]
    /\ tmp = ZeroTree
    /\ out = ZeroVector
    /\ loop = NoLoop
    /\ last = NoCall

Next64 ==
    \/ \E o \in Objs : CallCount(o)
    \/ \E o \in Objs : CallFirst(o)
    \/ \E o \in Objs : \E pos \in Positions : CallNext(o, pos)
    \/ AndAssign("a", FALSE)

Spec64 == Init64 /\ [][Next64]_vars

\* a still holds the bits it was built from: a &= b has not run yet
BeforeAnd64 == \A p \in Positions : test(tree["a"], p) = v["a"][p]

\* C19: with N = 64, the object built from {1, 20, 31, 41} has count 4 and
\* first/next walk 1, 20, 31, 41, 64; after &= with the object built from
\* {20} it is true only at 20, with count 1, first 20 and next(20) = 64.
C19_Scenario ==
    LET t == tree["a"]
    IN /\ BeforeAnd64 =>
             /\ count(t) = 4
             /\ first(t) = 1
             /\ next(t, 1) = 20
             /\ next(t, 20) = 31
             /\ next(t, 31) = 41
             /\ next(t, 41) = 64
       /\ ~BeforeAnd64 =>
             /\ \A p \in Positions : test(t, p) = (p = 20)
             /\ count(t) = 1
             /\ first(t) = 20
             /\ next(t, 20) = 64
       /\ last.op = "and_assign" => ~BeforeAnd64
       /\ (last.op = "count" /\ last.obj = "a") => last.retn = count(t)
       /\ (last.op = "first" /\ last.obj = "a") => last.retn = first(t)
       /\ (last.op = "next" /\ last.obj = "a") => last.retn = next(t, last.pos)

\* after a &= b, next(20) was called on a and returned the sentinel
C19_Witness ==
    /\ N = 64
    /\ ~BeforeAnd64
    /\ last.op = "next"
    /\ last.obj = "a"
    /\ last.pos = 20
    /\ last.retn = 64

\* ---- copies ---------------------------------------------------------------
PointMutators == {"set_pos", "reset_pos", "flip_pos"}

\* C20: a copy-constructed or copy-assigned object has the slots of its
\* source (every bit and every summary) and the source is untouched, and a
\* later point mutation of one object leaves the other object unchanged.
C20_CopyIndependence ==
    LET o == last.obj
    IN /\ last.op = "copy" =>
             /\ tree[o] = last.pre[Other(o)]
             /\ tree[Other(o)] = last.pre[Other(o)]
       /\ (last.op = "copy_assign" /\ ~last.self) =>
             /\ tree[o] = last.pre[Other(o)]
             /\ tree[Other(o)] = last.pre[Other(o)]
       /\ (last.op \in PointMutators /\ ~last.thrown) =>
             tree[Other(o)] = last.pre[Other(o)]

\* ---- the summary-pruned recursive copy -------------------------------------
\* tree[x] as a traversal reads it: a slot past the end of the bitset is a
\* stray bit of the memory behind it
slot(t, x, stray) == IF x \in Slots THEN t[x] ELSE stray

\* __pushup(x) when the children of x may lie past the end of the bitset
__pushup_stray(t, x, stray) ==
    [t EXCEPT ![x] = slot(t, __ls(x), stray) \/ slot(t, __rs(x), stray)]

\* __copy(o, l, r, x) on the tree c.t; c.ub records that a slot past the end of
\* the bitset was touched.  A call on such a slot returns (the descent below
\* it is outside the object) and what it leaves there is a stray bit.
RECURSIVE __copy(_, _, _, _, _, _)
__copy(c, o, l, r, x, stray) ==
    IF x \notin Slots THEN [c EXCEPT !.ub = TRUE]
    ELSE IF ~c.t[x] /\ ~o[x] THEN c
    ELSE IF l = r THEN [c EXCEPT !.t = [c.t EXCEPT ![x] = o[x]]]
    ELSE LET m == (l + r) \div 2
             c1 == __copy(c, o, l, m, __ls(x), stray)
             c2 == __copy(c1, o, r, m + 1, __rs(x), stray)
         IN [c2 EXCEPT !.t = __pushup_stray(c2.t, x, stray)]

\* segbitset(const __segbitset& o) { __copy(o, 1, N, 1); } on the zeroed member
copy_pruned(o, stray) == __copy([t |-> ZeroTree, ub |-> FALSE], o, 1, N, 1, stray)

\* object o is replaced by a copy of the other object made by __copy
CopyPruned(o) ==
    /\ \E stray \in BOOLEAN :
          LET c == copy_pruned(tree[Other(o)], stray)
          IN /\ tree' = [tree EXCEPT ![o] = c.t]
             /\ last' = Call("copy_pruned", o, FALSE, 0, FALSE, FALSE, 0, c.ub, <<>>)
    /\ UNCHANGED <<N, v, tmp, out, loop>>

NextCopy ==
    \E o \in Objs :
        \/ \E pos \in Positions, value \in BOOLEAN : SetPos(o, pos, value)
        \/ \E pos \in Positions : ResetPos(o, pos)
        \/ SetAll(o)
        \/ CopyPruned(o)

SpecCopy == Init /\ [][NextCopy]_vars

\* C21: the copy made by __copy from a zeroed tree has, at every node of the
\* tree, the slot that the whole-array copy has (every bit and every summary).
C21_CopyEquivalence ==
    last.op = "copy_pruned" =>
        \A n \in Nodes :
            tree[last.obj][n[1]] = copy(last.pre[Other(last.obj)])[n[1]]

\* ---- single calls on freshly constructed objects ---------------------------
\* bool operator[](size_t pos) const { return test(pos); }
TryConstIndex(o, pos) ==
    IF out_of_range(pos) THEN Throw("const_index", o, pos)
    ELSE /\ last' = Call("const_index", o, FALSE, pos, FALSE, test(tree[o], pos), 0,
                         FALSE, <<>>)
         /\ UNCHANGED <<N, tree, v, tmp, out, loop>>

CallAll(o) ==
    /\ last' = Call("all", o, FALSE, 0, FALSE, all(tree[o]), 0, FALSE, <<>>)
    /\ UNCHANGED <<N, tree, v, tmp, out, loop>>

CallAny(o) ==
    /\ last' = Call("any", o, FALSE, 0, FALSE, any(tree[o]), 0, FALSE, <<>>)
    /\ UNCHANGED <<N, tree, v, tmp, out, loop>>

CallNone(o) ==
    /\ last' = Call("none", o, FALSE, 0, FALSE, none(tree[o]), 0, FALSE, <<>>)
    /\ UNCHANGED <<N, tree, v, tmp, out, loop>>

\* o != other : !(*this == rhs)
CallNotEqual(o) ==
    /\ LET e == equal(tree[o], tree[Other(o)])
       IN \E b \in (IF e = "ub" THEN BOOLEAN ELSE {e # "true"}) :
             last' = Call("not_equal", o, FALSE, 0, FALSE, b, 0, e = "ub", <<>>)
    /\ UNCHANGED <<N, tree, v, tmp, out, loop>>

\* an export that moves the bits out: it clears the tree it has read
ToBitsetInto_draining(o, a) ==
    /\ out' = __to_bitset(tree[o], a, 1, N, 1)
    /\ tree' = [tree EXCEPT ![o] = reset_all(tree[o])]
    /\ last' = Call("to_bitset_into", o, FALSE, 0, FALSE, FALSE, 0, FALSE, <<>>)
    /\ UNCHANGED <<N, v, tmp, loop>>

\* o.to_bitset(a), a the caller's bitset (all zero in advance, or not)
ToBitsetInto(o, a) ==
    /\ out' = __to_bitset(tree[o], a, 1, N, 1)
    /\ last' = Call("to_bitset_into", o, FALSE, 0, FALSE, FALSE, 0, FALSE, <<>>)
    /\ UNCHANGED <<N, tree, v, tmp, loop>>

\* the arguments next is tried with: every position, the two values past the
\* end and the two largest size_t
NextArgs == PosArgs \cup {SizeMod - 2}

NextCalls ==
    \E o \in Objs :
        \/ \E pos \in PosArgs : Fresh /\ TryTest(o, pos)
        \/ \E pos \in PosArgs : Fresh /\ TryConstIndex(o, pos)
        \/ Fresh /\ CallCount(o)
        \/ Fresh /\ CallAll(o)
        \/ Fresh /\ CallAny(o)
        \/ Fresh /\ CallNone(o)
        \/ Fresh /\ CallFirst(o)
        \/ \E pos \in NextArgs : Fresh /\ CallNext(o, pos)
        \/ CallForeach1(o)
        \/ ToBitset(o)
        \/ \E a \in Vectors : Fresh /\ ToBitsetInto(o, a)
        \/ Fresh /\ CallEqual(o)
        \/ Fresh /\ CallNotEqual(o)
        \/ Fresh /\ AndAssign(o, FALSE)
        \/ Fresh /\ OrAssign(o, FALSE)
        \/ Fresh /\ XorAssign(o, FALSE)
        \/ OpAnd(o)
        \/ OpOr(o)
        \/ OpXor(o)

SpecCalls == InitBuilt /\ [][NextCalls]_vars

ReadOps == {"test", "const_index", "count", "all", "any", "none", "first", "next",
            "foreach1", "to_bitset", "to_bitset_into", "equal", "not_equal"}

\* C22: test, const operator[], count, all, any, none, first, next, foreach1,
\* both to_bitset overloads, == and != leave every slot of both trees as it was.
C22_ReadOnly == last.op \in ReadOps => tree = last.pre

\* to_bitset(a) has exported a tree with bits set into the caller's bitset
C22_Witness ==
    /\ last.op = "to_bitset_into"
    /\ N >= 3
    /\ any(tree[last.obj])
    /\ \E i, j \in Positions : out[i] /\ ~out[j]
    /\ to_bitset(tree[last.obj]) = v[last.obj]

\* C26: A &= B, A |= B, A ^= B and A == B on distinct objects leave every slot
\* of B as it was (== leaves A too), and A & B, A | B, A ^ B return their result
\* in a new object, leaving every slot of A and of B as it was.
C26_OperandsKept ==
    /\ (last.op \in {"and_assign", "or_assign", "xor_assign"} /\ ~last.self) =>
          tree[Other(last.obj)] = last.pre[Other(last.obj)]
    /\ last.op = "equal" => tree = last.pre
    /\ last.op \in {"op_and", "op_or", "op_xor"} => tree = last.pre
    /\ last.op = "op_and" => tmp = and_assign(last.pre[last.obj], last.pre[Other(last.obj)], FALSE)
    /\ last.op = "op_or" => tmp = or_assign(last.pre[last.obj], last.pre[Other(last.obj)], FALSE)
    /\ last.op = "op_xor" => tmp = xor_assign(last.pre[last.obj], last.pre[Other(last.obj)], FALSE)

\* A ^ B has returned an object that differs from both A and B
C26_Witness ==
    /\ last.op = "op_xor"
    /\ N >= 3
    /\ ~SameBits(tmp, tree["a"])
    /\ ~SameBits(tmp, tree["b"])
    /\ any(tree["a"])
    /\ any(tree["b"])

\* C27: for every size_t argument p, next(p) returns N or a true position q
\* with p < q < N.
C27_NextAnyArgument ==
    last.op = "next" =>
        \/ last.retn = N
        \/ /\ last.pos < last.retn
           /\ last.retn < N
           /\ test(tree[last.obj], last.retn)

\* ---- point mutations, storage and ranges -----------------------------------
\* C23: after set(pos), reset(pos) or flip(pos), pos < N, every other position
\* tests as before; pos tests true after set(pos), false after reset(pos) and
\* negated after flip(pos); distinct positions have distinct leaf slots.
C23_PointFrame ==
    /\ last.op \in {"set_pos", "reset_pos", "flip_pos"} =>
          \A q \in Positions \ {last.pos} :
              test(tree[last.obj], q) = test(last.pre[last.obj], q)
    /\ (last.op = "set_pos" /\ last.value) => test(tree[last.obj], last.pos)
    /\ last.op = "reset_pos" => ~test(tree[last.obj], last.pos)
    /\ last.op = "flip_pos" =>
          test(tree[last.obj], last.pos) = ~test(last.pre[last.obj], last.pos)
    /\ \A p, q \in Positions :
          p # q => __find(p + 1, 1, N, 1) # __find(q + 1, 1, N, 1)

\* flip(pos) has cleared a bit next to bits that stay set
C23_Witness ==
    /\ last.op = "flip_pos"
    /\ N >= 3
    /\ ~test(tree[last.obj], last.pos)
    /\ \E q \in Positions : q < last.pos /\ test(tree[last.obj], q)
    /\ \E q \in Positions : q > last.pos /\ test(tree[last.obj], q)

\* C24: every node of the tree has an index within 0..4N, and no call reads
\* or writes a slot outside 0..4N.
C24_StorageBound ==
    /\ \A n \in Nodes : n[1] \in Slots
    /\ last.op \in {"equal", "double_complement"} => ~last.ub

\* the calls <<x, l, r>> that the traversal of __equal makes
RECURSIVE __equal_calls(_, _, _, _, _)
__equal_calls(t, rhs, l, r, x) ==
    IF x \notin Slots THEN {<<x, l, r>>}
    ELSE IF t[x] # rhs[x] THEN {<<x, l, r>>}
    ELSE IF ~t[x] /\ ~rhs[x] THEN {<<x, l, r>>}
    ELSE IF l = r THEN {<<x, l, r>>}
    ELSE LET m == (l + r) \div 2
         IN {<<x, l, r>>}
            \cup __equal_calls(t, rhs, l, m, __ls(x))
            \cup (IF __equal(t, rhs, l, m, __ls(x)) = "true"
                  THEN __equal_calls(t, rhs, r, m + 1, __rs(x)) ELSE {})

\* the calls <<x, l, r>> that the traversal of __count makes
RECURSIVE __count_calls(_, _, _, _)
__count_calls(t, l, r, x) ==
    IF ~t[x] THEN {<<x, l, r>>}
    ELSE IF l = r THEN {<<x, l, r>>}
    ELSE LET m == (l + r) \div 2
         IN {<<x, l, r>>}
            \cup __count_calls(t, l, m, __ls(x))
            \cup __count_calls(t, m + 1, r, __rs(x))

\* C25: every call of a recursive traversal on node x is passed the range
\* [l, r], l <= r, that x covers, so no call is made below a leaf.
C25_RangeBookkeeping ==
    /\ \A o \in Objs : __count_calls(tree[o], 1, N, 1) \subseteq Nodes
    /\ last.op = "equal" =>
          __equal_calls(tree[last.obj], tree[Other(last.obj)], 1, N, 1) \subseteq Nodes

====
